---- MODULE Spec2Model ----
(***************************************************************************)
(* Model of fileorg.py: the Worker thread that organizes one folder        *)
(* (Worker.run / Worker.stop / get_image_year) and the part of             *)
(* FileOrganizerApp that starts it and handles its completion signal.      *)
(*                                                                         *)
(* File names are sequences of one-character strings, so that              *)
(* str.split('.') and str.lower() are computed, not assumed.               *)
(* The two Cyrillic literals of the source are transliterated, because     *)
(* the module is ASCII: "без_расширения" is written "bez_rasshireniya"     *)
(* and "Фотографии " is written "Fotografii ".                             *)
(***************************************************************************)
EXTENDS Integers, Sequences, FiniteSets, TLC

\* ------------------------------------------------------------------ bounds
MaxFiles == 2   \* at most this many regular files in the folder at the start
MaxRuns == 2    \* at most this many organize runs are started

\* ------------------------------------------------- file names of the model
N_ajpg == <<"a", ".", "j", "p", "g">>
N_bJPG == <<"b", ".", "J", "P", "G">>
N_ctxt == <<"c", ".", "t", "x", "t">>
N_dTXT == <<"d", ".", "T", "X", "T">>
N_notes == <<"n", "o", "t", "e", "s">>
N_edot == <<"e", ".">>
N_txt == <<"t", "x", "t">>

NameUniverse == {N_ajpg, N_bJPG, N_ctxt, N_dTXT, N_notes, N_edot, N_txt}

\* years a photo can be dated to (EXIF DateTimeOriginal or modification time)
Years == {"2020", "2021"}

\* entries that may already sit in a subfolder before the first run:
\* <<subfolder name, file name>>
PreUniverse == {<<<<"t", "x", "t">>, N_ctxt>>}

\* ------------------------------------------------------- string functions
\* str.lower() on one character
LowerChar(c) ==
  CASE c = "J" -> "j"
    [] c = "P" -> "p"
    [] c = "G" -> "g"
    [] c = "T" -> "t"
    [] c = "X" -> "x"
    [] OTHER -> c

\* str.lower()
Lower(s) == [i \in DOMAIN s |-> LowerChar(s[i])]

\* '.' in f
HasDot(s) == \E i \in DOMAIN s : s[i] = "."

\* index of the last '.', 0 when there is none
LastDot(s) ==
  IF HasDot(s) THEN CHOOSE i \in DOMAIN s : s[i] = "." /\ \A j \in DOMAIN s : s[j] = "." => j <= i
  ELSE 0

\* s.split('.')[-1]: the text after the last '.', the whole string without '.'
SplitLast(s) == SubSeq(s, LastDot(s) + 1, Len(s))

PHOTO_EXTENSIONS ==
  { <<"j", "p", "g">>, <<"j", "p", "e", "g">>, <<"p", "n", "g">>,
    <<"g", "i", "f">>, <<"b", "m", "p">>, <<"t", "i", "f", "f">> }

\* the literal "без_расширения"
NoExtLabel == <<"bez_rasshireniya">>

\* f"Фотографии {year}"
PhotoDir(year) == <<"Fotografii ", year>>

\* the condition of line 53 over the listed files
AllPhotos(fs) ==
  \A i \in DOMAIN fs : HasDot(fs[i]) => Lower(SplitLast(fs[i])) \in PHOTO_EXTENSIONS

\* the mode chosen by lines 53-58
DetermineMode(fs) == IF AllPhotos(fs) THEN "photo" ELSE "default"

\* the ext of line 70
DefaultExt(filename) == IF HasDot(filename) THEN SplitLast(filename) ELSE NoExtLabel

\* int((processed / total) * 100); the float expression and the integer
\* quotient agree for every total up to 7
Percent(processed, total) == (processed * 100) \div total

\* every order os.listdir may return the files in
Orders(S) ==
  { q \in [1..Cardinality(S) -> S] : \A i, j \in 1..Cardinality(S) : q[i] = q[j] => i = j }

VARIABLES
  top,            \* names of the regular files directly in the folder
  dirs,           \* names of the subfolders of the folder
  sub,            \* <<subfolder, file name, content>> of files in subfolders
  pre,            \* the entries of sub at the start (history)
  folder,         \* folder_line.text(): "" or "dir"
  btnEnabled,     \* organize_btn.isEnabled()
  runs,           \* number of Workers started
  finishPending,  \* finished_signal emissions queued for the GUI thread
  pc,             \* position of the Worker thread
  isRunning,      \* Worker._is_running
  files, total, mode, idx, processed, targetDir,   \* locals of Worker.run
  log,            \* log_update emissions of the current run
  progressSeq,    \* progress_update emissions of the current run
  finishedCount,  \* finished_signal emissions of the current run
  stopped, stopK, stopInFlight,   \* history: first stop() during the run
  failedMoves,    \* history: files whose shutil.move raised in this run
  crashCause,     \* history: the call whose exception left run()
  prevClean       \* history: the previous run reported every file moved

fsVars == <<top, dirs, sub, pre>>
uiVars == <<folder, btnEnabled, runs, finishPending>>
runVars == <<pc, files, total, mode, idx, processed, targetDir, log, progressSeq,
             finishedCount, failedMoves, crashCause>>
stopVars == <<isRunning, stopped, stopK, stopInFlight>>
vars == <<fsVars, uiVars, runVars, stopVars, prevClean>>

Range(q) == {q[i] : i \in DOMAIN q}
Ev(kind, what) == [kind |-> kind, what |-> what]
None == <<"-">>

InFlightPcs == {"classify", "mkdir", "move", "progress"}
EndedPcs == {"done", "crashed"}

Init ==
  /\ top \in {S \in SUBSET NameUniverse : Cardinality(S) <= MaxFiles}
  /\ pre \in SUBSET PreUniverse
  /\ sub = {<<e[1], e[2], "old">> : e \in pre}
  /\ dirs = {e[1] : e \in pre}
  /\ \A d \in dirs : d \notin top
  /\ folder = ""
  /\ btnEnabled = TRUE
  /\ runs = 0
  /\ finishPending = 0
  /\ pc = "none"
  /\ isRunning = TRUE
  /\ files = <<>> /\ total = 0 /\ mode = "unset" /\ idx = 0 /\ processed = 0
  /\ targetDir = None
  /\ log = <<>> /\ progressSeq = <<>> /\ finishedCount = 0
  /\ stopped = FALSE /\ stopK = 0 /\ stopInFlight = FALSE
  /\ failedMoves = {} /\ crashCause = "none"
  /\ prevClean = FALSE

\* ------------------------------------------------------ FileOrganizerApp
\* lines 192-196, the dialog returning a folder
SelectFolder ==
  /\ folder' = "dir"
  /\ UNCHANGED <<fsVars, btnEnabled, runs, finishPending, runVars, stopVars, prevClean>>

\* the run reported a successful move for every file it listed and ended normally
CleanRun ==
  /\ pc = "done"
  /\ total >= 1
  /\ \A i \in 1..total : \E j \in DOMAIN log : log[j].kind = "moved" /\ log[j].what[1] = files[i]

\* lines 198-210; a disabled organize_btn emits no clicked signal
StartOrganization ==
  /\ btnEnabled
  /\ IF folder = ""
     THEN UNCHANGED vars
     ELSE /\ runs < MaxRuns
          /\ btnEnabled' = FALSE
          /\ runs' = runs + 1
          /\ pc' = "list"
          /\ isRunning' = TRUE
          /\ files' = <<>> /\ total' = 0 /\ mode' = "unset" /\ idx' = 0 /\ processed' = 0
          /\ targetDir' = None
          /\ log' = <<>> /\ progressSeq' = <<>> /\ finishedCount' = 0
          /\ stopped' = FALSE /\ stopK' = 0 /\ stopInFlight' = FALSE
          /\ failedMoves' = {} /\ crashCause' = "none"
          /\ prevClean' = CleanRun
          /\ UNCHANGED <<fsVars, folder, finishPending>>

\* lines 212-214, run in the GUI thread for a queued finished_signal
Finish ==
  /\ finishPending > 0
  /\ finishPending' = finishPending - 1
  /\ btnEnabled' = TRUE
  /\ UNCHANGED <<fsVars, folder, runs, runVars, stopVars, prevClean>>

\* ----------------------------------------------------------------- Worker
\* lines 87-88, callable from any thread once the Worker exists
Stop ==
  /\ pc # "none"
  /\ isRunning' = FALSE
  /\ IF ~stopped /\ pc \notin EndedPcs
     THEN /\ stopped' = TRUE
          /\ stopK' = processed
          /\ stopInFlight' = (pc \in InFlightPcs)
     ELSE UNCHANGED <<stopped, stopK, stopInFlight>>
  /\ UNCHANGED <<fsVars, uiVars, runVars, prevClean>>

\* List without the return of line 50: the run goes on after the no-files notice
ListNoReturn ==
  /\ pc = "list"
  /\ \E order \in Orders(top) :
       /\ files' = order
       /\ total' = Len(order)
  /\ IF total' = 0
     THEN /\ log' = Append(log, Ev("nofiles", None))
          /\ finishedCount' = finishedCount + 1
          /\ finishPending' = finishPending + 1
     ELSE UNCHANGED <<log, finishedCount, finishPending>>
  /\ pc' = "mode"
  /\ UNCHANGED <<fsVars, folder, btnEnabled, runs, mode, idx, processed, targetDir,
                 progressSeq, failedMoves, crashCause, stopVars, prevClean>>

\* lines 45-50
List ==
  /\ pc = "list"
  /\ \E order \in Orders(top) :
       /\ files' = order
       /\ total' = Len(order)
  /\ IF total' = 0
     THEN /\ log' = Append(log, Ev("nofiles", None))
          /\ finishedCount' = finishedCount + 1
          /\ finishPending' = finishPending + 1
          /\ pc' = "done"
     ELSE /\ pc' = "mode"
          /\ UNCHANGED <<log, finishedCount, finishPending>>
  /\ UNCHANGED <<fsVars, folder, btnEnabled, runs, mode, idx, processed, targetDir,
                 progressSeq, failedMoves, crashCause, stopVars, prevClean>>

\* lines 52-60
Mode ==
  /\ pc = "mode"
  /\ mode' = DetermineMode(files)
  /\ log' = Append(log, Ev(IF mode' = "photo" THEN "mode_photo" ELSE "mode_default", None))
  /\ processed' = 0
  /\ pc' = "check"
  /\ UNCHANGED <<fsVars, uiVars, files, total, idx, targetDir, progressSeq, finishedCount,
                 failedMoves, crashCause, stopVars, prevClean>>

\* Check without the test of _is_running of line 62
CheckIgnoringStop ==
  /\ pc = "check"
  /\ IF idx = total
     THEN /\ pc' = "complete"
          /\ UNCHANGED idx
     ELSE /\ idx' = idx + 1
          /\ pc' = "classify"
  /\ UNCHANGED <<fsVars, uiVars, files, total, mode, processed, targetDir, log, progressSeq,
                 finishedCount, failedMoves, crashCause, stopVars, prevClean>>

\* lines 61-64: the loop head
Check ==
  /\ pc = "check"
  /\ IF idx = total
     THEN /\ pc' = "complete"
          /\ UNCHANGED <<idx, log>>
     ELSE IF ~isRunning
     THEN /\ log' = Append(log, Ev("cancelled", None))
          /\ pc' = "complete"
          /\ UNCHANGED idx
     ELSE /\ idx' = idx + 1
          /\ pc' = "classify"
          /\ UNCHANGED log
  /\ UNCHANGED <<fsVars, uiVars, files, total, mode, processed, targetDir, progressSeq,
                 finishedCount, failedMoves, crashCause, stopVars, prevClean>>

\* lines 65-71, with get_image_year (lines 18-32): the year comes from EXIF or
\* from the modification time; os.path.getmtime of line 32 is outside the try
\* and its exception leaves run()
Classify ==
  /\ pc = "classify"
  /\ IF mode = "photo"
     THEN \/ /\ \E year \in Years : targetDir' = PhotoDir(year)
             /\ pc' = "mkdir"
             /\ UNCHANGED crashCause
          \/ /\ pc' = "crashed"
             /\ crashCause' = "getmtime"
             /\ UNCHANGED targetDir
     ELSE /\ targetDir' = DefaultExt(files[idx])
          /\ pc' = "mkdir"
          /\ UNCHANGED crashCause
  /\ UNCHANGED <<fsVars, uiVars, files, total, mode, idx, processed, log, progressSeq,
                 finishedCount, failedMoves, stopVars, prevClean>>

\* os.path.exists(target_dir): os.path.join(folder, "") is the folder itself
Exists(d) == d = <<>> \/ d \in dirs \/ d \in top

\* lines 72-74; os.makedirs is outside the try of line 75 and its exception
\* leaves run()
Mkdir ==
  /\ pc = "mkdir"
  /\ IF Exists(targetDir)
     THEN /\ pc' = "move"
          /\ UNCHANGED <<dirs, log, crashCause>>
     ELSE \/ /\ dirs' = dirs \cup {targetDir}
             /\ log' = Append(log, Ev("created", targetDir))
             /\ pc' = "move"
             /\ UNCHANGED crashCause
          \/ /\ pc' = "crashed"
             /\ crashCause' = "makedirs"
             /\ UNCHANGED <<dirs, log>>
  /\ UNCHANGED <<top, sub, pre, uiVars, files, total, mode, idx, processed, targetDir,
                 progressSeq, finishedCount, failedMoves, stopVars, prevClean>>

\* shutil.move(filepath, os.path.join(target_dir, filename)) succeeded.
\* The destination is a file path, so shutil.move renames onto it: os.rename
\* replaces a file that is already there (POSIX), and where os.rename refuses
\* (Windows) shutil.move falls back to copy2 + unlink, which overwrites it too.
\* With an empty extension target_dir is the folder itself, the destination is
\* the source path, and the rename changes nothing.
MoveOk(f, d) ==
  /\ IF d = <<>>
     THEN UNCHANGED <<top, sub>>
     ELSE /\ top' = top \ {f}
          /\ sub' = {e \in sub : ~(e[1] = d /\ e[2] = f)} \cup {<<d, f, "new">>}
  /\ log' = Append(log, Ev("moved", <<f, d>>))
  /\ UNCHANGED failedMoves

\* shutil.move raised and line 78 caught it
MoveFailed(f) ==
  /\ log' = Append(log, Ev("error", <<f>>))
  /\ failedMoves' = failedMoves \cup {f}
  /\ UNCHANGED <<top, sub>>

\* lines 75-79. When target_dir exists but is a regular file the move raises
\* NotADirectoryError; otherwise it succeeds or raises (permission, I/O).
Move ==
  /\ pc = "move"
  /\ LET f == files[idx]
         d == targetDir
     IN  IF d # <<>> /\ d \notin dirs
         THEN MoveFailed(f)
         ELSE MoveOk(f, d) \/ MoveFailed(f)
  /\ pc' = "progress"
  /\ UNCHANGED <<dirs, pre, uiVars, files, total, mode, idx, processed, targetDir,
                 progressSeq, finishedCount, crashCause, stopVars, prevClean>>

\* lines 80-83
Progress ==
  /\ pc = "progress"
  /\ processed' = processed + 1
  /\ progressSeq' = Append(progressSeq, Percent(processed', total))
  /\ pc' = "check"
  /\ UNCHANGED <<fsVars, uiVars, files, total, mode, idx, targetDir, log, finishedCount,
                 failedMoves, crashCause, stopVars, prevClean>>

\* lines 84-85
Complete ==
  /\ pc = "complete"
  /\ log' = Append(log, Ev("complete", None))
  /\ finishedCount' = finishedCount + 1
  /\ finishPending' = finishPending + 1
  /\ pc' = "done"
  /\ UNCHANGED <<fsVars, folder, btnEnabled, runs, files, total, mode, idx, processed,
                 targetDir, progressSeq, failedMoves, crashCause, stopVars, prevClean>>

Next ==
  \/ SelectFolder
  \/ StartOrganization
  \/ Finish
  \/ Stop
  \/ List
  \/ Mode
  \/ Check
  \/ Classify
  \/ Mkdir
  \/ Move
  \/ Progress
  \/ Complete

Spec == Init /\ [][Next]_vars

\* ------------------------------------------------------------ properties
CountKind(k) == Cardinality({j \in DOMAIN log : log[j].kind = k})
CountFile(k, f) == Cardinality({j \in DOMAIN log : log[j].kind = k /\ log[j].what[1] = f})
Attempted(f) == CountFile("moved", f) + CountFile("error", f) > 0
LastKind == IF log = <<>> THEN "none" ELSE log[Len(log)].kind

TypeOK ==
  /\ top \subseteq NameUniverse
  /\ pc \in {"none", "list", "mode", "check", "classify", "mkdir", "move", "progress",
             "complete", "done", "crashed"}
  /\ idx \in 0..total
  /\ processed \in 0..total
  /\ runs \in 0..MaxRuns

\* C1: every run emits finished_signal exactly once: a run that has ended has
\* emitted it once, and no run emits it twice, also when makedirs, getmtime or
\* the move fail.
C1_FinishedExactlyOnce ==
  /\ finishedCount <= 1
  /\ pc \in EndedPcs => finishedCount = 1

\* C2: the mode is photo if and only if every listed file has a '.' and its
\* lower-cased text after the last '.' is a photo extension.
C2_PhotoIffAllPhotoExt ==
  mode # "unset" =>
    (mode = "photo" <=>
       \A i \in DOMAIN files :
         HasDot(files[i]) /\ Lower(SplitLast(files[i])) \in PHOTO_EXTENSIONS)

\* C3: in default mode the destination subfolder of a file is the lower-cased
\* text after its last '.', or the no-extension label when it has no '.'.
C3_DefaultDestLowerExt ==
  (mode = "default" /\ pc \in {"mkdir", "move", "progress"}) =>
    targetDir = (IF HasDot(files[idx]) THEN Lower(SplitLast(files[idx])) ELSE NoExtLabel)

\* C4: a failing move never aborts the run: each failed file has exactly one
\* error event, it is counted as processed with a progress event, and the run
\* ends with the completion log and exactly one completion signal.
C4_MoveFailureNeverAborts ==
  /\ \A f \in failedMoves : CountFile("error", f) = 1
  /\ pc \in {"check", "complete", "done"} =>
       (processed = idx /\ Len(progressSeq) = idx)
  /\ (pc \in EndedPcs /\ failedMoves # {}) =>
       (LastKind = "complete" /\ finishedCount = 1)

\* C5: when the destination subfolder already holds an entry with the name of
\* the file being moved, the move is reported as an error and the entry that
\* was there is kept.
C5_CollisionIsFailure ==
  \A e \in pre :
    Attempted(e[2]) =>
      /\ CountFile("error", e[2]) = 1
      /\ CountFile("moved", e[2]) = 0
      /\ <<e[1], e[2], "old">> \in sub

\* C6: the progress values of a run are integers in 0..100 and never decrease;
\* a run that was not cancelled and had at least one file ends with a last
\* progress value of 100; one progress event is emitted per file iterated.
C6_ProgressReaches100 ==
  /\ \A i \in DOMAIN progressSeq : progressSeq[i] \in 0..100
  /\ \A i, j \in DOMAIN progressSeq : i <= j => progressSeq[i] <= progressSeq[j]
  /\ (pc \in EndedPcs /\ total >= 1 /\ CountKind("cancelled") = 0) =>
       (progressSeq # <<>> /\ progressSeq[Len(progressSeq)] = 100)
  /\ pc \in EndedPcs => Len(progressSeq) = idx

\* C7 as claimed: when stop() is called after k of n files have been
\* processed (k < n), the run ends with exactly k files processed, one
\* cancellation log and the completion signal. Stated for runs that reach
\* line 85 with no failed move and no file name ending in '.', so that no
\* failure of a file-system call and no empty extension is involved.
C7_StopLeavesExactlyK ==
  (pc = "done" /\ stopped /\ stopK < total /\ failedMoves = {}
     /\ \A i \in DOMAIN files : SplitLast(files[i]) # <<>>) =>
    (processed = stopK /\ CountKind("cancelled") = 1 /\ finishedCount = 1)

\* every file reported as moved into a subfolder is in that subfolder
MovedStay ==
  \A j \in DOMAIN log :
    (log[j].kind = "moved" /\ log[j].what[2] # <<>>) =>
      (<<log[j].what[2], log[j].what[1], "new">> \in sub /\ log[j].what[1] \notin top)

InFlightAtStop == IF stopInFlight THEN 1 ELSE 0

\* C7 amended: stop() takes effect at the next loop test. Called between
\* iterations after k of n files (k < n): no further iteration begins, k files
\* are processed, the cancellation log is emitted once and the completion
\* signal fires. Called while iteration k+1 is in flight: that iteration is
\* not interrupted and no later one begins; when it finishes, k+1 files are
\* processed and the cancellation log is emitted once if k+1 < n and not at
\* all if k+1 = n; when it raises, the run ends with k files processed and no
\* cancellation log. Files already moved stay moved.
C7_CancelAtNextLoopTest ==
  (stopped /\ stopK < total) =>
    /\ idx = stopK + InFlightAtStop
    /\ CountKind("cancelled") <= 1
    /\ MovedStay
    /\ pc = "done" =>
         /\ processed = stopK + InFlightAtStop
         /\ CountKind("cancelled") = (IF processed < total THEN 1 ELSE 0)
         /\ LastKind = "complete"
         /\ finishedCount = 1
    /\ pc = "crashed" =>
         (stopInFlight /\ processed = stopK /\ CountKind("cancelled") = 0)

\* C7 witness: stop() arrived between iterations after 1 of 2 files, and the
\* run has ended cancelled with that one file moved.
C7_Witness ==
  /\ pc = "done" /\ stopped /\ ~stopInFlight
  /\ total = 2 /\ stopK = 1 /\ processed = 1
  /\ CountKind("moved") = 1 /\ CountKind("cancelled") = 1

\* C8: after a run that reported every file moved, the next run finds no
\* top-level file and emits only the no-files notice and the completion signal.
C8_SecondRunFindsNothing ==
  (prevClean /\ pc \notin {"none", "list"}) =>
    /\ total = 0
    /\ pc = "done"
    /\ log = <<Ev("nofiles", None)>>
    /\ progressSeq = <<>>
    /\ finishedCount = 1

\* C9: a run over a folder without top-level regular files emits the no-files
\* notice as its only log event, no progress event and no mode log, changes
\* nothing in the folder and emits the completion signal once, whether or not
\* stop() was called before.
C9_NoFilesRun ==
  [][ /\ (pc = "list" /\ pc' # "list" /\ top = {}) =>
          /\ pc' = "done"
          /\ log' = <<Ev("nofiles", None)>>
          /\ progressSeq' = <<>>
          /\ mode' = "unset"
          /\ finishedCount' = 1
          /\ finishPending' = finishPending + 1
          /\ UNCHANGED fsVars
      /\ (pc = "done" /\ total = 0 /\ runs' = runs) =>
          UNCHANGED <<pc, log, progressSeq, mode, finishedCount, fsVars>> ]_vars

\* C9 witness: stop() was called before the run listed a folder that holds
\* only a subfolder, and the run has ended with the notice alone.
C9_Witness ==
  /\ pc = "done" /\ total = 0 /\ stopped /\ ~isRunning
  /\ dirs # {}
  /\ log = <<Ev("nofiles", None)>>
  /\ finishedCount = 1

\* C10: while a Worker runs the organize button is disabled, and once a started
\* run has ended and its queued signals are handled the button is enabled again.
C10_ButtonReenabled ==
  /\ pc \notin ({"none"} \cup EndedPcs) => ~btnEnabled
  /\ (pc \in EndedPcs /\ finishPending = 0) => btnEnabled
====
